---- MODULE Spec2Model ----
(***************************************************************************)
(* Peggy-Buddy: a Streamlit chat front end that logs a user in against a   *)
(* Snowflake warehouse, sends the conversation to Gemini, extracts fenced  *)
(* SQL from the reply, runs each statement and renders the results.        *)
(* The model follows src/streamlit_app.py and src/prompts_ofi.py.          *)
(*                                                                         *)
(* Python values: an optional value (a dict key that may be absent) is a   *)
(* sequence of length 0 or 1; a text is a sequence of tokens.              *)
(***************************************************************************)
EXTENDS Integers, Sequences, FiniteSets, TLC

VARIABLES
    session_state,   \* st.session_state of every browser session
    names_cache,     \* st.cache_data store of get_table_names (process wide)
    context_cache,   \* st.cache_data store of get_table_context (process wide)
    connections,     \* warehouse connections currently open in the process
    last_check,      \* per session: outcome of its latest warehouse credential check
    run,             \* what the latest script run did (its trace on the page)
    interp,          \* input and output of the response interpreter, on its own
    plot             \* input and output of plot_graph, on its own

vars == <<session_state, names_cache, context_cache, connections, last_check,
          run, interp, plot>>

(***************************************************************************)
(* Bounds                                                                  *)
(***************************************************************************)
MaxStatements == 2      \* most fenced SQL blocks in one LLM reply
MaxPrompts == 1         \* most accepted prompts per session
MaxConnections == 3     \* cap on the count of open connections
MaxTextLen == 6         \* longest reply text given to the interpreter alone
MaxColumns == 4         \* size of the column universe given to plot_graph alone

Some(x) == <<x>>
Absent == <<>>
Has(o) == Len(o) = 1
Get(o) == o[1]

(***************************************************************************)
(* Response interpreter: re.findall over the reply with the pattern        *)
(* fence, tag sql, whitespace+, lazy group, whitespace+, fence (DOTALL),   *)
(* followed by strip() of every entry.                                     *)
(* A text is a sequence of tokens: the fence, the tag sql, one whitespace  *)
(* character, or any other token (an ordinary run of text).                *)
(***************************************************************************)
Fence == "FENCE"        \* three backticks
Tag == "sql"            \* the info string right after an opening fence
Ws == " "               \* one whitespace character (blank or newline)

\* Number of consecutive whitespace tokens of t starting at position p.
RECURSIVE WRun(_, _)
WRun(t, p) ==
    IF p > Len(t) THEN 0
    ELSE IF t[p] # Ws THEN 0
    ELSE 1 + WRun(t, p + 1)

\* The closing part of the pattern matches at e: a greedy whitespace run, then a fence.
ClosesAt(t, e) ==
    /\ WRun(t, e) >= 1
    /\ e + WRun(t, e) <= Len(t)
    /\ t[e + WRun(t, e)] = Fence

\* The opening part of the pattern matches at i: fence, tag, whitespace run.
OpensAt(t, i) ==
    /\ i + 2 <= Len(t)
    /\ t[i] = Fence
    /\ t[i + 1] = Tag
    /\ WRun(t, i + 2) >= 1

\* The lazy group grows from position e on until the closing part matches:
\* the first such position, or 0 when there is none.
RECURSIVE FirstClose(_, _)
FirstClose(t, e) ==
    IF e > Len(t) THEN 0
    ELSE IF ClosesAt(t, e) THEN e
    ELSE FirstClose(t, e + 1)

\* The backtracking search anchored at i with the opening whitespace run
\* taking k tokens: greedy, so the longest k is tried first.  The result is
\* the captured group and the position after the match (0: no match).
RECURSIVE MatchAt(_, _, _)
MatchAt(t, i, k) ==
    IF k = 0 THEN [group |-> <<>>, next |-> 0]
    ELSE IF FirstClose(t, i + 2 + k) # 0
    THEN [group |-> SubSeq(t, i + 2 + k, FirstClose(t, i + 2 + k) - 1),
          next |-> FirstClose(t, i + 2 + k) + WRun(t, FirstClose(t, i + 2 + k)) + 1]
    ELSE MatchAt(t, i, k - 1)

\* re.findall: leftmost non-overlapping matches, scanning from position i.
RECURSIVE FindAllFrom(_, _)
FindAllFrom(t, i) ==
    IF i > Len(t) THEN <<>>
    ELSE IF ~OpensAt(t, i) THEN FindAllFrom(t, i + 1)
    ELSE IF MatchAt(t, i, WRun(t, i + 2)).next = 0 THEN FindAllFrom(t, i + 1)
    ELSE <<MatchAt(t, i, WRun(t, i + 2)).group>>
            \o FindAllFrom(t, MatchAt(t, i, WRun(t, i + 2)).next)

\* str.strip(): leading and trailing whitespace removed.
RECURSIVE Strip(_)
Strip(q) ==
    IF q = <<>> THEN q
    ELSE IF Head(q) = Ws THEN Strip(Tail(q))
    ELSE IF q[Len(q)] = Ws THEN Strip(SubSeq(q, 1, Len(q) - 1))
    ELSE q

\* sql_blocks as lines 183-184 compute it.
SqlBlocks(reply) ==
    LET found == FindAllFrom(reply, 1)
    IN  [n \in 1..Len(found) |-> Strip(found[n])]

Tokens == {Fence, Tag, Ws, "a"}

RECURSIVE TextsOfLen(_)
TextsOfLen(n) ==
    IF n = 0 THEN {<<>>}
    ELSE {Append(t, x) : t \in TextsOfLen(n - 1), x \in Tokens}

Texts == UNION {TextsOfLen(n) : n \in 0..MaxTextLen}

(***************************************************************************)
(* Presentation adapter: plot_graph(results, message).                     *)
(* A DataFrame is its column set and its number of rows; a figure is the   *)
(* DataFrame px.bar drew it from.                                          *)
(***************************************************************************)
Bar(results) == [of |-> results]

PlotCondition(results) ==
    results.rows # 0 /\ {"year", "revenue"} \subseteq results.columns

\* A faulty variant that tests the column set for equality.
StrictPlotCondition(results) ==
    results.rows # 0 /\ {"year", "revenue"} = results.columns

plot_graph_exact(results, message) ==
    IF StrictPlotCondition(results)
    THEN [message EXCEPT !.fig = Some(Bar(results))]
    ELSE message

plot_graph(results, message) ==
    IF PlotCondition(results)
    THEN [message EXCEPT !.fig = Some(Bar(results))]
    ELSE message

\* Whether plot_graph draws the chart on the page (st.plotly_chart).
PlotShown(results) == PlotCondition(results)

(***************************************************************************)
(* The warehouse, as the program sees it through snowflake.connector.      *)
(***************************************************************************)
Sessions == {"s1", "s2"}
Usernames == {"alice", "bob"}
Passwords == {"right", "wrong"}
Roles == {"enterprise_user", "end_user"}

\* The role each account was granted.
GrantedRole(username) ==
    IF username = "alice" THEN "enterprise_user" ELSE "end_user"

\* snowflake.connector.connect(user, password, role, ...) returns a connection.
Connects(username, password, role, net) ==
    /\ net = "up"
    /\ password = "right"
    /\ role = GrantedRole(username)

\* INFORMATION_SCHEMA.COLUMNS lists only what the connected role may see:
\* SELECT DISTINCT TABLE_NAME ... ORDER BY TABLE_NAME.
VisibleTables(role) ==
    IF role = "enterprise_user" THEN <<"PRODUCTS", "SALES">> ELSE <<"PRODUCTS">>

Range(f) == {f[x] : x \in DOMAIN f}

TableNames == Range(VisibleTables("enterprise_user")) \cup Range(VisibleTables("end_user"))

\* SELECT COLUMN_NAME, DATA_TYPE ... WHERE TABLE_NAME = table, rendered as
\* the context text of lines 109-118.
ContextText(role, table) ==
    IF table \notin Range(VisibleTables(role))
    THEN <<"The table name", table, "has the following columns">>
    ELSE IF table = "PRODUCTS"
    THEN <<"The table name", table, "has the following columns",
           "- **BRAND**: TEXT", "- **REVENUE**: NUMBER">>
    ELSE <<"The table name", table, "has the following columns",
           "- **SALE_DATE**: DATE", "- **QUANTITY**: NUMBER">>

(***************************************************************************)
(* Schema introspector and prompt composer (src/prompts_ofi.py).           *)
(* An introspection state is the two st.cache_data stores, the count of    *)
(* open connections, the number of warehouse calls made so far by this     *)
(* get_system_prompt, whether an exception is propagating, and the value   *)
(* returned.  fault = [at, stage] makes the at-th warehouse call of the    *)
(* invocation raise, at connect or at the metadata query.                  *)
(***************************************************************************)
NoFault == [at |-> 0, stage |-> "connect"]

\* The body of a cached function on a cache miss: connect, use role, query.
\* The connection is rebound to its cursor and never closed.
Introspect(st, fault) ==
    LET call == st.calls + 1
    IN  IF fault.at = call /\ fault.stage = "connect"
        THEN [st EXCEPT !.calls = call, !.raised = TRUE]
        ELSE IF fault.at = call
        THEN [st EXCEPT !.calls = call, !.raised = TRUE, !.conns = @ + 1]
        ELSE [st EXCEPT !.calls = call, !.conns = @ + 1]

\* @st.cache_data get_table_names(DATABASE, SCHEMA): one entry, since both
\* arguments are module constants.
get_table_names(st, role, fault) ==
    IF Has(st.names)
    THEN [st EXCEPT !.value = Get(st.names)]
    ELSE LET done == Introspect(st, fault)
         IN  IF done.raised THEN done
             ELSE [done EXCEPT !.names = Some(VisibleTables(role)),
                               !.value = VisibleTables(role)]

\* @st.cache_data get_table_context(table): one entry per table name.
get_table_context(st, role, table, fault) ==
    IF Has(st.contexts[table])
    THEN [st EXCEPT !.value = Get(st.contexts[table])]
    ELSE LET done == Introspect(st, fault)
         IN  IF done.raised THEN done
             ELSE [done EXCEPT !.contexts[table] = Some(ContextText(role, table)),
                               !.value = ContextText(role, table)]

\* GEN_SQL.format(tables=..., context=..., username=..., role=...)
Format(tables, context, username, role) ==
    <<"GEN_SQL", "tables:">> \o tables \o <<"context:">> \o context
        \o <<"username:", username, "role:", role>>

\* The loop of lines 126-128 over tables[i..], accumulating the context.
RECURSIVE AllTablesContext(_, _, _, _, _, _)
AllTablesContext(st, role, tables, i, acc, fault) ==
    IF i > Len(tables) THEN [st EXCEPT !.value = acc]
    ELSE LET got == get_table_context(st, role, tables[i], fault)
         IN  IF got.raised THEN got
             ELSE AllTablesContext(got, role, tables, i + 1, acc \o got.value, fault)

get_system_prompt(st, username, role, fault) ==
    LET named == get_table_names(st, role, fault)
    IN  IF named.raised THEN named
        ELSE LET tables == named.value
                 ctx == AllTablesContext(named, role, tables, 1, <<>>, fault)
             IN  IF ctx.raised THEN ctx
                 ELSE [ctx EXCEPT !.value = Format(tables, ctx.value, username, role)]

\* The prompt a session gets when nothing is cached and nothing fails.
FreshPrompt(username, role) ==
    get_system_prompt([names |-> Absent, contexts |-> [t \in TableNames |-> Absent],
                       conns |-> 0, calls |-> 0, raised |-> FALSE, value |-> <<>>],
                      username, role, NoFault).value

(***************************************************************************)
(* Login (src/streamlit_app.py, lines 65-100).                             *)
(***************************************************************************)
NoSession == [username |-> Absent, password |-> Absent, role |-> Absent,
              messages |-> Absent, assistant_greeted |-> FALSE]

\* Python truthiness of st.session_state.get(key) for a text value.
Truthy(o) == Has(o) /\ Get(o) # ""

\* A faulty variant that returns True on every path.
isAuthenticated_always(username, role, password, net) == TRUE

\* connect, close, return True; any exception is reported and gives False.
isAuthenticated(username, role, password, net) ==
    Connects(username, password, role, net)

\* The body of "if st.sidebar.button('Login')".
display_login_form(ss, username, password, role, net) ==
    IF isAuthenticated(username, role, password, net)
    THEN [ss EXCEPT !.username = Some(username), !.password = Some(password),
                    !.role = Some(role)]
    ELSE [ss EXCEPT !.username = Absent, !.password = Absent, !.role = Absent]

(***************************************************************************)
(* Chat (src/streamlit_app.py, lines 114-226).                             *)
(***************************************************************************)
Message(role, content) ==
    [role |-> role, content |-> content, sql |-> Absent, results |-> Absent,
     fig |-> Absent]

\* What the query executor can get back for one statement.
DataFrames ==
    {[columns |-> {"year", "revenue"}, rows |-> 0],
     [columns |-> {"year", "revenue"}, rows |-> 2],
     [columns |-> {"product", "total_revenue"}, rows |-> 2]}

NoFrame == [columns |-> {}, rows |-> 0]

\* What happens to one statement: connect raises DatabaseError, execute
\* raises ProgrammingError, or rows come back and the summary call on them
\* (made for a non-empty table only) returns or raises.
Outcomes ==
    {[kind |-> k, df |-> NoFrame, summary |-> "ok"] :
        k \in {"connect_error", "sql_error"}}
    \cup {[kind |-> "rows", df |-> d, summary |-> "ok"] : d \in DataFrames}
    \cup {[kind |-> "rows", df |-> [columns |-> {"year", "revenue"}, rows |-> 2],
            summary |-> "error"]}

OutcomeSeqs(n) == [1..n -> Outcomes]

\* One pass of the loop body, lines 191-222: acc is the assistant message
\* so far and the trace of the passes made.
Entry(idx, sql, reported, msg) ==
    [idx |-> idx, sql |-> sql, reported |-> reported, summaries |-> 0, notices |-> 0,
     opened |-> 0, closed |-> 0, code |-> Absent, described |-> Absent,
     chart |-> Absent, msg |-> msg]

\* A faulty variant of the loop body without the df.empty test.
RunStatement_no_empty_check(msg, idx, sql, o) ==
    IF o.kind = "connect_error" THEN Entry(idx, sql, "error", msg)
    ELSE IF o.kind = "sql_error"
    THEN [Entry(idx, sql, "error", msg) EXCEPT !.opened = 1, !.closed = 1]
    ELSE IF o.summary = "error"
    THEN [Entry(idx, sql, "error", msg) EXCEPT
            !.opened = 1, !.closed = 1, !.summaries = 1]
    ELSE LET attached == plot_graph(o.df, [msg EXCEPT !.results = Some(o.df)])
         IN  [Entry(idx, sql, "result", attached) EXCEPT
                !.opened = 1, !.closed = 1, !.summaries = 1,
                !.code = Some(sql), !.described = Some(o.df),
                !.chart = IF PlotShown(o.df) THEN Some(Bar(o.df)) ELSE Absent]

RunStatement(msg, idx, sql, o) ==
    IF o.kind = "connect_error"
    THEN \* connect raised DatabaseError: st.error("Snowflake error")
         Entry(idx, sql, "error", msg)
    ELSE IF o.kind = "sql_error"
    THEN \* execute raised inside the with block, which closes conn
         [Entry(idx, sql, "error", msg) EXCEPT !.opened = 1, !.closed = 1]
    ELSE IF o.df.rows = 0
    THEN \* st.warning(...); continue
         [Entry(idx, sql, "no_data", msg) EXCEPT
            !.opened = 1, !.closed = 1, !.notices = 1]
    ELSE IF o.summary = "error"
    THEN \* generate_content raised: st.error("Unexpected error")
         [Entry(idx, sql, "error", msg) EXCEPT
            !.opened = 1, !.closed = 1, !.summaries = 1]
    ELSE LET attached == plot_graph(o.df, [msg EXCEPT !.results = Some(o.df)])
         IN  [Entry(idx, sql, "result", attached) EXCEPT
                !.opened = 1, !.closed = 1, !.summaries = 1,
                !.code = Some(sql), !.described = Some(o.df),
                !.chart = IF PlotShown(o.df) THEN Some(Bar(o.df)) ELSE Absent]

\* A faulty variant with the try around the loop: the first error ends the loop.
RECURSIVE RunStatements_abort_on_error(_, _, _, _)
RunStatements_abort_on_error(msg, blocks, outs, i) ==
    IF i > Len(blocks) THEN <<>>
    ELSE LET e == RunStatement(msg, i, blocks[i], outs[i])
         IN  IF e.reported = "error" THEN <<e>>
             ELSE <<e>> \o RunStatements_abort_on_error(e.msg, blocks, outs, i + 1)

\* for idx, sql in enumerate(sql_blocks, 1): the trace of passes from i on.
RECURSIVE RunStatements(_, _, _, _)
RunStatements(msg, blocks, outs, i) ==
    IF i > Len(blocks) THEN <<>>
    ELSE LET e == RunStatement(msg, i, blocks[i], outs[i])
         IN  <<e>> \o RunStatements(e.msg, blocks, outs, i + 1)

\* Replies the LLM may give: plain text, or n fenced statements q1..qn.
StatementTexts == <<"q1", "q2", "q3", "q4", "q5">>

RECURSIVE ReplyWith(_)
ReplyWith(n) ==
    IF n = 0 THEN <<>>
    ELSE ReplyWith(n - 1) \o <<Fence, Tag, Ws, StatementTexts[n], Ws, Fence, Ws>>

PlainReply == <<"I can help with that.">>
SorryReply == <<"Sorry, I hit an error processing your request.">>

Replies(max) == {PlainReply} \cup {ReplyWith(n) : n \in 1..max}

\* sql_blocks of every reply the LLM may give, computed once.
Interpreted == [r \in Replies(MaxStatements) \cup {SorryReply} |-> SqlBlocks(r)]

\* Lines 178-226 for a reply: the assistant message appended and the trace.
Answer(reply, outs) ==
    LET sql_blocks == Interpreted[reply]
        assistant_msg == Message("assistant", reply)
    IN  IF sql_blocks # <<>>
        THEN LET first == [assistant_msg EXCEPT !.sql = Some(sql_blocks[1])]
                 log == RunStatements(first, sql_blocks, outs, 1)
             IN  [msg |-> log[Len(log)].msg, log |-> log, blocks |-> sql_blocks]
        ELSE [msg |-> assistant_msg, log |-> <<>>, blocks |-> sql_blocks]

\* History rendering, lines 138-149, of one message: what is put on the page.
Render(msg) ==
    IF Has(msg.sql) /\ Get(msg.sql) # <<>>
    THEN [markdown |-> IF msg.content # <<>> THEN Some(msg.content) ELSE Absent,
          tables |-> IF Has(msg.results) /\ Get(msg.results).rows # 0
                     THEN msg.results ELSE Absent,
          charts |-> msg.fig,
          text |-> Absent]
    ELSE [markdown |-> Absent, tables |-> Absent, charts |-> Absent,
          text |-> Some(msg.content)]

\* chat_session.send_message: streamed, or AttributeError and the
\* non-streaming call (which returns or raises), or another exception.
LLMOutcomes(max) ==
    {[kind |-> k, reply |-> r] : k \in {"stream", "fallback"}, r \in Replies(max)}
    \cup {[kind |-> k, reply |-> <<>>] : k \in {"fallback_error", "api_error"}}

Prompts == {<<>>, <<"show revenue by year">>}

Faults ==
    {NoFault} \cup {[at |-> a, stage |-> g] :
                      a \in 1..(1 + Cardinality(TableNames)), g \in {"connect", "query"}}

UserTurns(messages) ==
    Cardinality({i \in 2..Len(messages) : messages[i].role = "user"})

PromptsLeft(ss) ==
    IF Has(ss.messages) THEN UserTurns(Get(ss.messages)) < MaxPrompts ELSE TRUE

NoRun == [session |-> "", handler |-> "none", uncaught |-> FALSE, accepted |-> FALSE,
          before |-> <<>>, prompt |-> <<>>, replied |-> FALSE, reply |-> <<>>,
          outs |-> <<>>, blocks |-> <<>>, log |-> <<>>]

(***************************************************************************)
(* Script runs.  Streamlit reruns the script (the __main__ block, lines    *)
(* 231-235) on every interaction of a session: the login form while        *)
(* session_state has no username, the chat otherwise.                      *)
(***************************************************************************)
Idle ==
    /\ interp = [text |-> <<>>, done |-> FALSE, blocks |-> <<>>]
    /\ plot = [results |-> NoFrame, message |-> Message("assistant", <<>>),
               done |-> FALSE, out |-> Message("assistant", <<>>)]

MainIdle ==
    /\ session_state = [s \in Sessions |-> NoSession]
    /\ names_cache = Absent
    /\ context_cache = [t \in TableNames |-> Absent]
    /\ connections = 0
    /\ last_check = [s \in Sessions |-> "none"]
    /\ run = NoRun

Init == MainIdle /\ Idle

\* The user of session s presses Login with the form filled in.
Login(s) ==
    /\ ~Truthy(session_state[s].username)
    /\ \E username \in Usernames, password \in Passwords, role \in Roles,
          net \in {"up", "down"} :
        /\ session_state' = [session_state EXCEPT
              ![s] = display_login_form(@, username, password, role, net)]
        /\ last_check' = [last_check EXCEPT
              ![s] = IF Connects(username, password, role, net)
                     THEN "passed" ELSE "failed"]
        /\ run' = [NoRun EXCEPT !.session = s, !.handler = "login"]
    /\ UNCHANGED <<names_cache, context_cache, connections, interp, plot>>

\* One run of chatbot() for session s: prompt is what st.chat_input returns
\* (empty when nothing was typed), fault, llm and outs are what the
\* warehouse and the LLM do during the run.
ChatRun(s, prompt, fault, llm, outs) ==
    LET ss == session_state[s]
        st0 == [names |-> names_cache, contexts |-> context_cache,
                conns |-> connections, calls |-> 0, raised |-> FALSE, value |-> <<>>]
        init == ~Has(ss.messages)
        sp == IF init /\ Has(ss.username) /\ Has(ss.role)
              THEN get_system_prompt(st0, Get(ss.username), Get(ss.role), fault)
              ELSE st0
        messages0 == IF init THEN <<Message("user", sp.value)>> ELSE Get(ss.messages)
        messages1 == Append(messages0, Message("user", prompt))
        reply == IF llm.kind = "api_error" THEN SorryReply ELSE llm.reply
        answer == Answer(reply, outs)
        base == [NoRun EXCEPT !.session = s, !.handler = "chatbot"]
    IN  IF init /\ ~(Has(ss.username) /\ Has(ss.role))
        THEN \* st.error("You must log in first."); return
             [ss |-> ss, st |-> st0, run |-> base]
        ELSE IF sp.raised
        THEN \* get_system_prompt raised: nothing handles it
             [ss |-> ss, st |-> sp, run |-> [base EXCEPT !.uncaught = TRUE]]
        ELSE IF prompt = <<>>
        THEN \* if not prompt: return
             [ss |-> [ss EXCEPT !.messages = Some(messages0),
                                !.assistant_greeted = TRUE],
              st |-> sp, run |-> base]
        ELSE IF llm.kind = "fallback_error"
        THEN \* the call in the AttributeError handler raised: nothing handles it
             [ss |-> [ss EXCEPT !.messages = Some(messages1),
                                !.assistant_greeted = TRUE],
              st |-> sp,
              run |-> [base EXCEPT !.uncaught = TRUE, !.accepted = TRUE,
                                   !.before = messages0, !.prompt = prompt]]
        ELSE [ss |-> [ss EXCEPT !.messages = Some(Append(messages1, answer.msg)),
                                !.assistant_greeted = TRUE],
              st |-> sp,
              run |-> [base EXCEPT !.accepted = TRUE, !.before = messages0,
                                   !.prompt = prompt, !.replied = TRUE,
                                   !.reply = reply, !.outs = outs,
                                   !.blocks = answer.blocks, !.log = answer.log]]

NumBlocks(llm) ==
    IF llm.kind \in {"stream", "fallback"} THEN Len(Interpreted[llm.reply]) ELSE 0

Chatbot(s, maxStatements) ==
    /\ Truthy(session_state[s].username)
    /\ \E prompt \in Prompts :
        /\ (prompt = <<>> \/ PromptsLeft(session_state[s]))
        /\ \E fault \in (IF Has(session_state[s].messages) THEN {NoFault} ELSE Faults),
              llm \in (IF prompt = <<>> THEN {[kind |-> "stream", reply |-> PlainReply]}
                       ELSE LLMOutcomes(maxStatements)) :
            \E outs \in OutcomeSeqs(NumBlocks(llm)) :
              \E r \in {ChatRun(s, prompt, fault, llm, outs)} :
                  /\ r.st.conns <= MaxConnections
                  /\ session_state' = [session_state EXCEPT ![s] = r.ss]
                  /\ names_cache' = r.st.names
                  /\ context_cache' = r.st.contexts
                  /\ connections' = r.st.conns
                  /\ run' = r.run
    /\ UNCHANGED <<last_check, interp, plot>>

\* One browser session, every reply and every statement outcome.
Next == \E s \in {"s1"} : Login(s) \/ Chatbot(s, MaxStatements)

Spec == Init /\ [][Next]_vars

\* Two browser sessions served by the same process; replies in plain text.
NextSessions == \E s \in Sessions : Login(s) \/ Chatbot(s, 0)

SpecSessions == Init /\ [][NextSessions]_vars

(***************************************************************************)
(* The response interpreter on its own: every text of at most MaxTextLen   *)
(* tokens is interpreted.                                                  *)
(***************************************************************************)
InitInterp ==
    /\ MainIdle
    /\ interp \in {[text |-> t, done |-> FALSE, blocks |-> <<>>] : t \in Texts}
    /\ plot = [results |-> NoFrame, message |-> Message("assistant", <<>>),
               done |-> FALSE, out |-> Message("assistant", <<>>)]

Interpret ==
    /\ ~interp.done
    /\ interp' = [interp EXCEPT !.done = TRUE, !.blocks = SqlBlocks(interp.text)]
    /\ UNCHANGED <<session_state, names_cache, context_cache, connections,
                   last_check, run, plot>>

SpecInterp == InitInterp /\ [][Interpret]_vars

(***************************************************************************)
(* plot_graph on its own.  chatbot calls it at line 217 only, with a       *)
(* non-empty table and the assistant message under construction, which     *)
(* may carry the figure of an earlier statement of the same reply.         *)
(***************************************************************************)
ColumnNames == <<"year", "revenue", "brand", "quarter", "product", "quantity">>

ColumnSets == SUBSET {ColumnNames[i] : i \in 1..MaxColumns}

EarlierFrame == [columns |-> {"year", "revenue"}, rows |-> 7]

PlotInputs ==
    {[results |-> [columns |-> c, rows |-> n],
      message |-> [Message("assistant", <<"reply">>) EXCEPT
                     !.sql = Some(<<"q1">>),
                     !.results = Some([columns |-> c, rows |-> n]),
                     !.fig = f],
      done |-> FALSE,
      out |-> Message("assistant", <<>>)] :
        c \in ColumnSets, n \in {1, 2}, f \in {Absent, Some(Bar(EarlierFrame))}}

InitPlot ==
    /\ MainIdle
    /\ interp = [text |-> <<>>, done |-> FALSE, blocks |-> <<>>]
    /\ plot \in PlotInputs

PlotGraph ==
    /\ ~plot.done
    /\ plot' = [plot EXCEPT !.done = TRUE,
                            !.out = plot_graph(plot.results, plot.message)]
    /\ UNCHANGED <<session_state, names_cache, context_cache, connections,
                   last_check, run, interp>>

SpecPlot == InitPlot /\ [][PlotGraph]_vars

(***************************************************************************)
(* Properties                                                              *)
(***************************************************************************)
LoggedIn(s) == Truthy(session_state[s].username)
Conversation(s) == Get(session_state[s].messages)
OpeningTurn(s) == Conversation(s)[1]

\* C1: the schema description in a session's opening instruction turn is
\* the one the warehouse gives to that session's own credentials and role;
\* a schema cached for one session is never served to another session.
C1_SchemaIsSessionsOwn ==
    \A s \in Sessions :
        Has(session_state[s].messages) =>
            OpeningTurn(s).content =
                FreshPrompt(Get(session_state[s].username), Get(session_state[s].role))

\* The outcome the user is to be told for a statement the warehouse and the
\* summary call treated as o.
ReportFor(o) ==
    IF o.kind # "rows" THEN "error"
    ELSE IF o.df.rows = 0 THEN "no_data"
    ELSE IF o.summary = "error" THEN "error"
    ELSE "result"

IsError(o) == o.kind \in {"connect_error", "sql_error"}

\* C2: when the reply holds n >= 1 extracted statements, every one of them
\* is attempted exactly once, in order of appearance, and has its own
\* outcome reported, whatever errors earlier statements raised.
C2_EveryStatementAttempted ==
    (run.replied /\ Len(run.blocks) >= 1) =>
        /\ Len(run.log) = Len(run.blocks)
        /\ \A i \in 1..Len(run.blocks) :
            /\ i <= Len(run.log)
            /\ run.log[i].idx = i
            /\ run.log[i].sql = run.blocks[i]
            /\ run.log[i].reported = ReportFor(run.outs[i])

C2_Witness ==
    /\ run.replied
    /\ Len(run.blocks) >= 2
    /\ IsError(run.outs[1])
    /\ Len(run.log) = Len(run.blocks)
    /\ run.log[1].reported = "error"
    /\ run.log[2].reported = "result"

\* C3: after chatbot handles an accepted prompt, whatever the LLM call and
\* the SQL executions do, the conversation is the conversation before the
\* prompt, then one user turn holding the prompt, then one assistant turn.
C3_OneUserTurnOneAssistantTurn ==
    (run.handler = "chatbot" /\ run.accepted) =>
        LET before == run.before
            now == Conversation(run.session)
        IN  /\ Len(now) = Len(before) + 2
            /\ SubSeq(now, 1, Len(before)) = before
            /\ now[Len(before) + 1] = Message("user", run.prompt)
            /\ now[Len(before) + 2].role = "assistant"

\* C4: every failure of an external call is caught where it occurs; none
\* leaves display_login_form or chatbot as an uncaught exception.
C4_NoUncaughtException == ~run.uncaught

\* C5: every warehouse connection opened is released by the time the
\* operation that opened it returns; none remains open between operations.
C5_NoConnectionLeftOpen == connections = 0

\* C6 as stated: plot_graph attaches a figure if and only if the column
\* set of the result table is exactly {year, revenue}.
C6_FigureIffExactlyYearRevenue ==
    plot.done =>
        ((plot.out.fig = Some(Bar(plot.results)))
            <=> plot.results.columns = {"year", "revenue"})

\* C6 as amended: for the non-empty tables chatbot passes, plot_graph
\* attaches a figure of the table if and only if its columns include both
\* year and revenue (a superset is charted too); otherwise the message is
\* returned as it was.
C6_FigureIffYearRevenueIncluded ==
    plot.done =>
        IF {"year", "revenue"} \subseteq plot.results.columns
        THEN plot.out = [plot.message EXCEPT !.fig = Some(Bar(plot.results))]
        ELSE plot.out = plot.message

C6_Witness ==
    /\ plot.done
    /\ {"year", "revenue"} \subseteq plot.results.columns
    /\ plot.results.columns # {"year", "revenue"}
    /\ plot.out.fig = Some(Bar(plot.results))

\* C7: replaying the assistant turn from history shows the SQL, the result
\* table and the chart of every statement whose result was shown when the
\* turn was produced.
C7_ReplayShowsWhatWasShown ==
    (run.replied /\ Len(run.blocks) >= 1) =>
        LET now == Conversation(run.session)
            replay == Render(now[Len(now)])
        IN  \A i \in 1..Len(run.log) :
                Has(run.log[i].described) =>
                    /\ Has(replay.markdown)
                    /\ Get(run.log[i].code) \in Range(Interpreted[Get(replay.markdown)])
                    /\ Get(run.log[i].described) \in Range(replay.tables)
                    /\ Has(run.log[i].chart) =>
                          Get(run.log[i].chart) \in Range(replay.charts)

\* The fenced SQL blocks of a text, read fence by fence: an opening fence
\* tagged sql runs to the next fence; with no next fence it is unterminated.
RECURSIVE NextFence(_, _)
NextFence(t, p) ==
    IF p > Len(t) THEN 0
    ELSE IF t[p] = Fence THEN p
    ELSE NextFence(t, p + 1)

RECURSIVE FencedBlocks(_, _)
FencedBlocks(t, i) ==
    IF i + 2 > Len(t) THEN <<>>
    ELSE IF ~(t[i] = Fence /\ t[i + 1] = Tag /\ t[i + 2] = Ws)
    THEN FencedBlocks(t, i + 1)
    ELSE IF NextFence(t, i + 3) = 0 THEN <<>>
    ELSE <<Strip(SubSeq(t, i + 2, NextFence(t, i + 3) - 1))>>
            \o FencedBlocks(t, NextFence(t, i + 3) + 1)

\* C8: the interpreter returns exactly one trimmed entry for each
\* terminated fenced SQL block, in order; an unterminated fence gives no
\* entry and no entry spans text outside a single block.
C8_OneEntryPerTerminatedBlock ==
    interp.done => interp.blocks = FencedBlocks(interp.text, 1)

\* C9: credentials are in session state, and the chat is reachable, only
\* if the session's latest login attempt passed the warehouse's credential
\* check; after a failed attempt no credential remains and the session is
\* at the login form.
C9_CredentialsOnlyAfterPassedCheck ==
    \A s \in Sessions :
        LET ss == session_state[s]
        IN  /\ (Has(ss.username) \/ Has(ss.password) \/ Has(ss.role)
                  \/ Has(ss.messages) \/ LoggedIn(s))
                => /\ last_check[s] = "passed"
                   /\ Has(ss.username) /\ Has(ss.password) /\ Has(ss.role)
                   /\ Connects(Get(ss.username), Get(ss.password), Get(ss.role), "up")
            /\ last_check[s] = "failed"
                => /\ ~Has(ss.username) /\ ~Has(ss.password) /\ ~Has(ss.role)
                   /\ ~LoggedIn(s)

C9_Witness ==
    \E s, t \in Sessions :
        /\ last_check[s] = "failed"
        /\ ~Has(session_state[s].username)
        /\ last_check[t] = "passed"
        /\ Has(session_state[t].messages)

IsEmptyResult(o) == o.kind = "rows" /\ o.df.rows = 0

\* The assistant message as it stands when pass i of the loop begins.
MessageBefore(i) ==
    IF i = 1
    THEN [Message("assistant", run.reply) EXCEPT !.sql = Some(run.blocks[1])]
    ELSE run.log[i - 1].msg

\* C10: for a statement whose execution returns an empty table no summary
\* is requested, no result table or figure is attached to the assistant
\* turn on its account, and exactly one "no data" notice is shown.
C10_EmptyResultOnlyNotice ==
    run.replied =>
        \A i \in 1..Len(run.log) :
            IsEmptyResult(run.outs[i]) =>
                /\ run.log[i].summaries = 0
                /\ run.log[i].notices = 1
                /\ run.log[i].msg = MessageBefore(i)
                /\ ~Has(run.log[i].described)
                /\ ~Has(run.log[i].chart)

C10_Witness ==
    /\ run.replied
    /\ Len(run.log) >= 2
    /\ Has(run.log[1].described)
    /\ IsEmptyResult(run.outs[2])
    /\ run.log[2].notices = 1
    /\ Conversation(run.session)[Len(Conversation(run.session))].results
          = run.log[1].described
====
